---- MODULE Spec2Model ----
(***************************************************************************)
(* gotask: a three-column terminal kanban board (src/gotask.go).           *)
(*                                                                         *)
(* The model is the bubbletea model struct of src/gotask.go together with  *)
(* the snapshot file it loads and saves.  Every key event is one step: the *)
(* whole of model.Update for that key, the save it performs included.      *)
(* A program run ends with tea.Quit; initialModel() starts the next run    *)
(* from the snapshot file the previous run left behind.                    *)
(*                                                                         *)
(* Indices are 0-based as in the Go code (cursorColumn, cursorTask); a     *)
(* TLA+ sequence s is read at s[i + 1].  The text buffer and task titles   *)
(* are sequences of one-character strings.                                 *)
(***************************************************************************)
EXTENDS Integers, Sequences, FiniteSets, TLC

\* ---------------------------------------------------------------- bounds
\* model.lastID is an unbounded int and the text input has no CharLimit: the
\* model stops adding tasks at a largest id and typing at a longest text.
\* Largest task id assigned under Spec.
MaxID == 3
\* Largest task id assigned under SpecIds.
MaxIDIds == 2
\* Largest task id assigned under SpecText.
MaxIDText == 1
\* Largest task id assigned under SpecIO.
MaxIDIO == 1
\* Longest text typed into the text input under SpecText.
MaxLen == 1
\* Largest task id assigned under SpecKeys.
MaxIDKeys == 2
\* Largest task id assigned under SpecView.
MaxIDView == 2
\* Largest task id assigned under SpecSimple.
MaxIDSimple == 2
\* Largest task id assigned under SpecScroll.
MaxIDScroll == 5
\* Tasks in the snapshot file the first run of SpecScroll loads.
SnapshotTasks == 4

VARIABLES
    board,          \* model.board: the three columns and their tasks
    cursorColumn,   \* model.cursorColumn
    cursorTask,     \* model.cursorTask
    textInput,      \* model.textInput: the value of the text buffer
    inputMode,      \* model.inputMode
    inputState,     \* model.inputState: NormalMode | InsertMode
    err,            \* model.err
    lastID,         \* model.lastID
    showHelp,       \* model.showHelp
    dialogType,     \* model.dialogType
    editingTask,    \* model.editingTask: pointer into a column's Tasks
    width,          \* model.width
    viewports,      \* model.viewports: what each column's viewport displays
    disk,           \* the snapshot file at model.savePath
    running,        \* FALSE once Update has returned tea.Quit
    ev,             \* the event handled last: key, state it arrived in, save outcome
    env,            \* the surroundings: file system outcomes, keys typed, id limit
    deleted,        \* history: ids removed by confirmed deletes of this run
    deletedEver     \* history: ids removed by confirmed deletes of any run

vars == <<board, cursorColumn, cursorTask, textInput, inputMode, inputState,
          err, lastID, showHelp, dialogType, editingTask, width, viewports,
          disk, running, ev, env, deleted, deletedEver>>

\* ------------------------------------------------------- program constants
NormalMode == "NormalMode"
InsertMode == "InsertMode"

NoDialog == "NoDialog"
DeleteDialog == "DeleteDialog"
EditDialog == "EditDialog"

\* The nil *Task.
NilTask == [col |-> -1, idx |-> -1]

\* The nil error.
NoErr == "nil"

\* The wall-clock readings time.Now() returns; the zero time.Time is 0.
Times == {1}

\* ------------------------------------------------------------------- keys
\* msg.String() of the key events the model delivers.
QuitKeys == {"ctrl+c", "q"}
UpKeys == {"up", "k"}
DownKeys == {"down", "j"}
LeftKeys == {"left", "h"}
RightKeys == {"right", "l"}
MoveLeftKeys == {"[", "{"}
MoveRightKeys == {"]", "}"}
YesKeys == {"y", "Y"}
NoKeys == {"n", "N", "esc", "q", "ctrl+c"}
Keys == QuitKeys \cup UpKeys \cup DownKeys \cup LeftKeys \cup RightKeys
        \cup MoveLeftKeys \cup MoveRightKeys \cup YesKeys \cup NoKeys
        \cup {"?", "a", "e", "d", "i", "enter", " ", "backspace"}

\* Keys with no case in the Browsing switch.
BrowsingOtherKeys == {"y", "i", "esc", "enter"}

\* Keys with no case in the delete dialog's switch.
DeleteOtherKeys == {"d", "a", "enter", "j"}

\* Keys that are a single printable character (tea.KeyRunes / tea.KeySpace).
RuneKeys == {k \in Keys : k \notin {"ctrl+c", "up", "down", "left", "right",
                                     "esc", "enter", "backspace"}}

\* ---------------------------------------------------------------- helpers
max(a, b) == IF a > b THEN a ELSE b

minUnbounded(a, b) == b

min(a, b) == IF a < b THEN a ELSE b

RemoveAtFirst(s, i) == Tail(s)

\* append(s[:i], s[i+1:]...) for a 0-based index i.
RemoveAt(s, i) == SubSeq(s, 1, i) \o SubSeq(s, i + 2, Len(s))

Cols == 0..2

\* board.Columns[c].Tasks for a 0-based column index.
TasksOf(b, c) == b[c + 1].Tasks

WithTasks(b, c, ts) == [b EXCEPT ![c + 1].Tasks = ts]

\* All tasks of a board and their ids.
AllTasks(b) == UNION {{TasksOf(b, c)[i] : i \in 1..Len(TasksOf(b, c))} : c \in Cols}

AllIds(b) == {t.ID : t \in AllTasks(b)}

TaskCount(b) == Len(TasksOf(b, 0)) + Len(TasksOf(b, 1)) + Len(TasksOf(b, 2))

\* The board initialModel() builds before loading.
EmptyBoard == <<[ID |-> 1, Title |-> "To Do", Tasks |-> <<>>],
                [ID |-> 2, Title |-> "In Progress", Tasks |-> <<>>],
                [ID |-> 3, Title |-> "Done", Tasks |-> <<>>]>>

\* ------------------------------------------------------------ persistence
\* encoding/json of a Task: the four tagged fields; time.Time is written as
\* the RFC 3339 text of its wall-clock reading.
MarshalTask(t) == [id |-> t.ID, title |-> t.Title,
                   description |-> t.Description, created_at |-> <<"RFC3339", t.CreatedAt>>]

UnmarshalTask(j) == [ID |-> j.id, Title |-> j.title, Description |-> j.description,
                     CreatedAt |-> j.created_at[2]]

MarshalColumn(c) == [id |-> c.ID, title |-> c.Title,
                     tasks |-> [i \in 1..Len(c.Tasks) |-> MarshalTask(c.Tasks[i])]]

UnmarshalColumn(j) == [ID |-> j.id, Title |-> j.title,
                       Tasks |-> [i \in 1..Len(j.tasks) |-> UnmarshalTask(j.tasks[i])]]

\* json.MarshalIndent(m.board, "", "  ")
Marshal(b) == [columns |-> [i \in 1..Len(b) |-> MarshalColumn(b[i])]]

\* json.Unmarshal(data, &m.board)
Unmarshal(j) == [i \in 1..Len(j.columns) |-> UnmarshalColumn(j.columns[i])]

\* The snapshot file: absent, or a document written by saveBoard.
NoFile == [kind |-> "none", data |-> [columns |-> <<>>]]
JsonFile(b) == [kind |-> "json", data |-> Marshal(b)]

\* Outcomes of os.WriteFile: the file is written, or the write is refused
\* and the file stays as it was.
SaveOutcomes == {"ok", "denied"}

saveBoardSkipped(b, outcome, d) == d

\* saveBoard: the file after the call.
saveBoard(b, outcome, d) == IF outcome = "ok" THEN JsonFile(b) ELSE d

saveErrCleared(outcome, e) == IF outcome = "ok" THEN NoErr ELSE "write"

\* saveBoard: the error it returns.
saveErr(outcome, e) == IF outcome = "ok" THEN e ELSE "write"

\* The tasks of all columns in the order loadBoard's loops visit them.
RECURSIVE Flatten(_)
Flatten(b) == IF b = <<>> THEN <<>> ELSE Head(b).Tasks \o Flatten(Tail(b))

HighestIDLastWins(ts, acc) == IF ts = <<>> THEN acc ELSE ts[Len(ts)].ID

\* loadBoard's loop: if task.ID > m.lastID { m.lastID = task.ID }
RECURSIVE HighestID(_, _)
HighestID(ts, acc) ==
    IF ts = <<>> THEN acc
    ELSE HighestID(Tail(ts), IF Head(ts).ID > acc THEN Head(ts).ID ELSE acc)

\* loadBoard on a model fresh from initialModel (board EmptyBoard, lastID 0):
\* the board, lastID and error after the call.  readOK: os.ReadFile succeeds.
loadBoard(d, readOK) ==
    CASE d.kind = "none" -> [board |-> EmptyBoard, lastID |-> 0, err |-> NoErr]
      [] ~readOK -> [board |-> EmptyBoard, lastID |-> 0, err |-> "read"]
      [] OTHER -> [board |-> Unmarshal(d.data),
                   lastID |-> HighestID(Flatten(Unmarshal(d.data)), 0),
                   err |-> NoErr]

\* ---------------------------------------------------------------- display
\* The widths a tea.WindowSizeMsg reports.
Widths == {80}

\* The heights a tea.WindowSizeMsg reports: a terminal of twelve rows.
Heights == {12}

\* A viewport made by viewport.New(0, 0): no content, no height, at the top.
NoContent == [columnWidth |-> 0, placeholder |-> FALSE, lines |-> <<>>,
              height |-> 0, yOffset |-> 0]

\* The content updateViewportContent builds for column c: the "No tasks"
\* placeholder for an empty column, otherwise one box per task in order,
\* holding the title behind the selection marker for the task under the
\* cursor and behind two spaces for any other; boxes are columnWidth wide.
Render(b, cc, ct, w, c) ==
    [columnWidth |-> (w \div Len(b)) - 15,
     placeholder |-> TasksOf(b, c) = <<>>,
     lines |-> [j \in 1..Len(TasksOf(b, c)) |->
                  [title |-> TasksOf(b, c)[j].Title,
                   selected |-> cc = c /\ ct = j - 1]]]

\* What is observed of the display: the new value under a specification
\* that observes it, and nothing elsewhere.
Observed(new, old) == IF env.view THEN new ELSE old

\* What is observed of the viewports' heights and scroll offsets: the new
\* value under a specification that observes them, and nothing elsewhere.
Scrolled(new, old) == IF env.scroll THEN new ELSE old

\* The height of a task's box in rows: border, title, border.
taskHeight == 3

\* The rows of a viewport's content: the placeholder and its bottom padding,
\* or three rows per task box and the empty row behind the last newline.
LineCount(vp) ==
    CASE vp.placeholder -> 2
      [] vp.lines = <<>> -> 0
      [] OTHER -> taskHeight * Len(vp.lines) + 1

\* viewport.Model: the largest offset, at which the last row is the last
\* visible one.
maxYOffset(vp) == max(0, LineCount(vp) - vp.height)

\* viewport.Model.SetYOffset(n): the offset is clamped to 0..maxYOffset.
SetYOffset(vp, n) == [vp EXCEPT !.yOffset = max(0, min(n, maxYOffset(vp)))]

\* viewport.Model.Update(msg) for a key: the viewport's own key bindings
\* scroll it by a row (up/k, down/j), half a page (u, d) or a page (b, f,
\* space, pgup, pgdown); scrolling down at the bottom and up at the top does
\* nothing.  Any other message leaves the viewport alone.
ViewportUpdate(vp, k) ==
    LET down == CASE k \in {"down", "j"} -> 1
                  [] k \in {"d", "ctrl+d"} -> vp.height \div 2
                  [] k \in {"pgdown", " ", "f"} -> vp.height
                  [] OTHER -> 0
        up == CASE k \in {"up", "k"} -> 1
                [] k \in {"u", "ctrl+u"} -> vp.height \div 2
                [] k \in {"pgup", "b"} -> vp.height
                [] OTHER -> 0
    IN  CASE down > 0 /\ vp.yOffset < maxYOffset(vp) -> SetYOffset(vp, vp.yOffset + down)
          [] up > 0 /\ vp.yOffset > 0 -> SetYOffset(vp, vp.yOffset - up)
          [] OTHER -> vp

\* The loop at the head of Update: every viewport receives the message.
UpdateViewports(vs, k) ==
    Scrolled([c \in DOMAIN vs |-> ViewportUpdate(vs[c], k)], vs)

\* The head of Update for a key whose handler renders nothing afterwards.
ScrollViewports == viewports' = UpdateViewports(viewports, ev'.key)

\* viewport.Model.SetContent(content): the rows are replaced; an offset
\* beyond the last row goes to the bottom.
SetContent(vp, content) ==
    LET set == [vp EXCEPT !.columnWidth = content.columnWidth,
                          !.placeholder = content.placeholder,
                          !.lines = content.lines]
    IN  IF set.yOffset > LineCount(set) - 1
        THEN SetYOffset(set, maxYOffset(set))
        ELSE set

\* updateViewportContent(columnIndex) on a model with board b, cursor
\* (cc, ct) and width w, for vp the viewport of column c: the viewport after
\* the call.  The viewport of the cursor's column is scrolled to the row of
\* the task under the cursor.
updateViewportContent(vp, b, cc, ct, w, c) ==
    IF cc = c /\ Len(TasksOf(b, c)) > 0
    THEN Scrolled(SetYOffset(SetContent(vp, Render(b, cc, ct, w, c)),
                             ct * taskHeight),
                  SetContent(vp, Render(b, cc, ct, w, c)))
    ELSE SetContent(vp, Render(b, cc, ct, w, c))

\* The viewports after updateViewportContent(c) for every column c of cs.
Refresh(vs, b, cc, ct, w, cs) ==
    Observed([i \in DOMAIN vs |->
                 IF i - 1 \in cs
                 THEN updateViewportContent(vs[i], b, cc, ct, w, i - 1)
                 ELSE vs[i]],
             vs)

\* case tea.WindowSizeMsg: the height every viewport is given in a terminal
\* of h rows.
viewportHeight(h, help) == max(10, (h - 5) - (IF help THEN 3 ELSE 0))

\* case tea.WindowSizeMsg: the viewports after they are resized for a
\* terminal of w columns and h rows and rendered again.
Resized(vs, b, cc, ct, w, h, help) ==
    Refresh([i \in DOMAIN vs |->
                [vs[i] EXCEPT !.height = Scrolled(viewportHeight(h, help), @)]],
            b, cc, ct, w, Cols)

\* ------------------------------------------------------------------ state
\* The state of the interaction machine, from inputMode and dialogType.
Mode == CASE dialogType = DeleteDialog -> "ConfirmingDelete"
          [] inputMode /\ dialogType = EditDialog -> "Editing"
          [] inputMode -> "AddingNew"
          [] OTHER -> "Browsing"

Sub == IF inputMode /\ dialogType # DeleteDialog THEN inputState ELSE "-"

\* The record of a key event: the key, the state the machine was in when it
\* arrived, and what the saveBoard call of its handler did ("none": no call).
Event(k, outcome) == [key |-> k, mode |-> Mode, sub |-> Sub, save |-> outcome]

\* initialModel(): the fields of a new model, loaded from the file d.
initialModel(d, readOK) ==
    /\ board' = loadBoard(d, readOK).board
    /\ lastID' = loadBoard(d, readOK).lastID
    /\ err' = loadBoard(d, readOK).err
    /\ cursorColumn' = 0
    /\ cursorTask' = 0
    /\ textInput' = <<>>
    /\ inputMode' = FALSE
    /\ inputState' = NormalMode
    /\ showHelp' = TRUE
    /\ dialogType' = NoDialog
    /\ editingTask' = NilTask
    /\ width' = 0
    /\ viewports' = [c \in 1..3 |-> NoContent]

\* tea.Program.Run where the terminal reports its size before the first key
\* (env.scroll): initialModel(), and Update for the first tea.WindowSizeMsg.
initialModelSized(d, readOK, w, h) ==
    /\ board' = loadBoard(d, readOK).board
    /\ lastID' = loadBoard(d, readOK).lastID
    /\ err' = loadBoard(d, readOK).err
    /\ cursorColumn' = 0
    /\ cursorTask' = 0
    /\ textInput' = <<>>
    /\ inputMode' = FALSE
    /\ inputState' = NormalMode
    /\ showHelp' = TRUE
    /\ dialogType' = NoDialog
    /\ editingTask' = NilTask
    /\ width' = w
    /\ viewports' = Resized([c \in 1..3 |-> NoContent], board', 0, 0, w, h, TRUE)

\* The first run starts with no snapshot file.
InitModel ==
    /\ board = EmptyBoard
    /\ lastID = 0
    /\ err = NoErr
    /\ cursorColumn = 0
    /\ cursorTask = 0
    /\ textInput = <<>>
    /\ inputMode = FALSE
    /\ inputState = NormalMode
    /\ showHelp = TRUE
    /\ dialogType = NoDialog
    /\ editingTask = NilTask
    /\ width = 0
    /\ viewports = [c \in 1..3 |-> NoContent]
    /\ disk = NoFile
    /\ running = TRUE
    /\ ev = [key |-> "start", mode |-> "-", sub |-> "-", save |-> "none"]
    /\ deleted = {}
    /\ deletedEver = {}

\* The texts of at most n characters over the characters cs.
TextsOver(cs, n) == UNION {[1..m -> cs] : m \in 0..n}

\* env.typed: the keys the user presses while a text-entry dialog forwards
\* them to the text input; env.texts: the texts the user types with them.
\* Under Spec every read and write of the file succeeds and the user types
\* one character and a key the text input ignores.
Init ==
    /\ InitModel
    /\ env = [saves |-> {"ok"}, reads |-> {TRUE}, typed |-> {"q", "up"},
              texts |-> {<<>>, <<"q">>}, cap |-> MaxID, track |-> FALSE, view |-> FALSE, scroll |-> FALSE]

\* Under SpecIds the same, and the ids of deleted tasks are recorded.
InitIds ==
    /\ InitModel
    /\ env = [saves |-> {"ok"}, reads |-> {TRUE}, typed |-> {"q", "up"},
              texts |-> {<<>>, <<"q">>}, cap |-> MaxIDIds, track |-> TRUE, view |-> FALSE, scroll |-> FALSE]

\* Under SpecText the user types a letter, a space and backspace.
InitText ==
    /\ InitModel
    /\ env = [saves |-> {"ok"}, reads |-> {TRUE},
              typed |-> {"q", " ", "backspace", "up"},
              texts |-> TextsOver({"q", " "}, MaxLen), cap |-> MaxIDText, track |-> FALSE, view |-> FALSE, scroll |-> FALSE]

\* Under SpecIO reading and writing the file can fail.
InitIO ==
    /\ InitModel
    /\ env = [saves |-> SaveOutcomes, reads |-> BOOLEAN, typed |-> {"q", "up"},
              texts |-> {<<>>, <<"q">>}, cap |-> MaxIDIO, track |-> FALSE, view |-> FALSE, scroll |-> FALSE]

\* Under SpecKeys the user types the keys that are commands in Browsing,
\* 'q', '?' and ctrl+c, and with them the texts "q" and "q?".
InitKeys ==
    /\ InitModel
    /\ env = [saves |-> {"ok"}, reads |-> {TRUE},
              typed |-> {"q", "?", "ctrl+c", "up"},
              texts |-> {<<>>, <<"q">>, <<"q", "?">>}, cap |-> MaxIDKeys,
              track |-> FALSE, view |-> FALSE, scroll |-> FALSE]

\* Under SpecView the display is observed: the terminal's width and what the
\* three viewports hold.
InitView ==
    /\ InitModel
    /\ env = [saves |-> {"ok"}, reads |-> {TRUE}, typed |-> {"q", "up"},
              texts |-> {<<>>, <<"q">>}, cap |-> MaxIDView, track |-> FALSE,
              view |-> TRUE, scroll |-> FALSE]

\* main(): the program is started again after a run has ended.
Start ==
    /\ ~running
    /\ \E readOK \in env.reads :
         IF env.scroll
         THEN \E w \in Widths, h \in Heights : initialModelSized(disk, readOK, w, h)
         ELSE initialModel(disk, readOK)
    /\ running' = TRUE
    /\ ev' = [key |-> "start", mode |-> "-", sub |-> "-", save |-> "none"]
    /\ deleted' = {}
    /\ UNCHANGED <<disk, env, deletedEver>>

hist == <<env, deleted, deletedEver>>

\* ------------------------------------------------------------- text input
\* textinput.Model.Update for a key event, on the value of the focused
\* input: a printable character is inserted at the end, backspace deletes the
\* last character, any other key leaves the value alone.
TextInputUpdate(v, k) ==
    CASE k = "backspace" -> IF v = <<>> THEN v ELSE SubSeq(v, 1, Len(v) - 1)
      [] k \in RuneKeys -> Append(v, k)
      [] OTHER -> v

\* The user types the texts of env.texts and no others.
CanType(v, k) == TextInputUpdate(v, k) \in env.texts

\* The history of deleted ids is kept where env.track asks for it.
Record(h, id) == IF env.track THEN h \cup {id} ELSE h

\* ------------------------------------------------------ ConfirmingDelete
ClampAfterRemoveNever(ct, n) == ct

\* if m.cursorTask >= len(col.Tasks) && m.cursorTask > 0 { m.cursorTask-- }
ClampAfterRemove(ct, n) == IF ct >= n /\ ct > 0 THEN ct - 1 ELSE ct

DeleteCaseEnterConfirms(k) ==
    CASE k \in YesKeys \cup {"enter"} -> "confirm"
      [] k \in NoKeys -> "cancel"
      [] OTHER -> "default"

\* The case of the delete dialog's switch msg.String() selects.
DeleteCase(k) ==
    CASE k \in YesKeys -> "confirm"
      [] k \in NoKeys -> "cancel"
      [] OTHER -> "default"

\* The keys delivered while the delete dialog is open.
DeleteKeys == YesKeys \cup NoKeys \cup DeleteOtherKeys

\* case "y", "Y": the task under the cursor is removed and the board saved.
DeleteConfirm ==
    /\ running
    /\ dialogType = DeleteDialog
    /\ \E k \in DeleteKeys, outcome \in env.saves :
         /\ DeleteCase(k) = "confirm"
         /\ LET ts == TasksOf(board, cursorColumn)
                nts == RemoveAt(ts, cursorTask)
            IN  IF Len(ts) > 0
                THEN /\ board' = WithTasks(board, cursorColumn, nts)
                     /\ cursorTask' = ClampAfterRemove(cursorTask, Len(nts))
                     /\ disk' = saveBoard(board', outcome, disk)
                     /\ err' = saveErr(outcome, err)
                     /\ ev' = Event(k, outcome)
                     /\ deleted' = Record(deleted, ts[cursorTask + 1].ID)
                     /\ deletedEver' = Record(deletedEver, ts[cursorTask + 1].ID)
                ELSE /\ ev' = Event(k, "none")
                     /\ UNCHANGED <<board, cursorTask, disk, err, deleted, deletedEver>>
    /\ dialogType' = NoDialog
    /\ UNCHANGED <<cursorColumn, textInput, inputMode, inputState, lastID,
                   showHelp, editingTask, running, env, width>>
    /\ ScrollViewports

\* case "n", "N", "esc", "q", "ctrl+c": the dialog is closed.
DeleteCancel ==
    /\ running
    /\ dialogType = DeleteDialog
    /\ \E k \in DeleteKeys : DeleteCase(k) = "cancel" /\ ev' = Event(k, "none")
    /\ dialogType' = NoDialog
    /\ UNCHANGED <<board, cursorColumn, cursorTask, textInput, inputMode,
                   inputState, err, lastID, showHelp, editingTask, disk,
                   running, hist, width>>
    /\ ScrollViewports

\* default: any other key returns the model as it is.
DeleteIgnore ==
    /\ running
    /\ dialogType = DeleteDialog
    /\ \E k \in DeleteKeys : DeleteCase(k) = "default" /\ ev' = Event(k, "none")
    /\ UNCHANGED <<board, cursorColumn, cursorTask, textInput, inputMode,
                   inputState, err, lastID, showHelp, dialogType, editingTask,
                   disk, running, hist, width>>
    /\ ScrollViewports

\* ------------------------------------------------------------ text entry
InEntry(st) == running /\ dialogType # DeleteDialog /\ inputMode /\ inputState = st

SetTitleFirst(b, p, title) == [b EXCEPT ![p.col + 1].Tasks[1].Title = title]

\* m.editingTask.Title = m.textInput.Value(), through the pointer taken by "e".
SetTitle(b, p, title) == [b EXCEPT ![p.col + 1].Tasks[p.idx + 1].Title = title]

HasTitleAlways(v) == TRUE

\* if m.textInput.Value() != ""
HasTitle(v) == v # <<>>

NextIDSame(id) == id

\* m.lastID++
NextID(id) == id + 1

NewTaskUntitled(id, title, t) == [ID |-> id, Title |-> <<>>, Description |-> <<>>,
                                  CreatedAt |-> t]

\* Task{ID: m.lastID, Title: m.textInput.Value(), CreatedAt: time.Now()}
NewTask(id, title, t) == [ID |-> id, Title |-> title, Description |-> <<>>,
                          CreatedAt |-> t]

AppendTaskRenumbered(b, c, task) ==
    WithTasks(b, c, Append(TasksOf(b, c), [task EXCEPT !.ID = TaskCount(b) + 1]))

\* col.Tasks = append(col.Tasks, newTask)
AppendTask(b, c, task) == WithTasks(b, c, Append(TasksOf(b, c), task))

\* case "enter", the same code in both entry states: an edit commit when a
\* task is bound, otherwise an add commit when the buffer is not empty,
\* otherwise the dialog is closed.
EnterCommit(k) ==
    IF dialogType = EditDialog /\ editingTask # NilTask
    THEN \E outcome \in env.saves :
           /\ board' = SetTitle(board, editingTask, textInput)
           /\ inputMode' = FALSE
           /\ inputState' = NormalMode
           /\ editingTask' = NilTask
           /\ dialogType' = NoDialog
           /\ disk' = saveBoard(board', outcome, disk)
           /\ err' = saveErr(outcome, err)
           /\ ev' = Event(k, outcome)
           /\ UNCHANGED <<cursorColumn, cursorTask, textInput, lastID,
                          showHelp, running, hist, width>>
           /\ ScrollViewports
    ELSE IF HasTitle(textInput)
    THEN \E outcome \in env.saves, t \in Times :
           /\ lastID < env.cap
           /\ lastID' = NextID(lastID)
           /\ board' = AppendTask(board, cursorColumn,
                                  NewTask(lastID', textInput, t))
           /\ textInput' = <<>>
           /\ inputMode' = FALSE
           /\ inputState' = NormalMode
           /\ disk' = saveBoard(board', outcome, disk)
           /\ err' = saveErr(outcome, err)
           /\ ev' = Event(k, outcome)
           /\ UNCHANGED <<cursorColumn, cursorTask, showHelp, dialogType,
                          editingTask, running, hist, width>>
           /\ ScrollViewports
    ELSE /\ inputMode' = FALSE
         /\ inputState' = NormalMode
         /\ ev' = Event(k, "none")
         /\ UNCHANGED <<board, cursorColumn, cursorTask, textInput, err,
                        lastID, showHelp, dialogType, editingTask, disk,
                        running, hist, width>>
         /\ ScrollViewports

\* NormalMode, case "i"
NormalInsert ==
    /\ InEntry(NormalMode)
    /\ inputState' = InsertMode
    /\ ev' = Event("i", "none")
    /\ UNCHANGED <<board, cursorColumn, cursorTask, textInput, inputMode, err,
                   lastID, showHelp, dialogType, editingTask, disk, running, hist, width>>
    /\ ScrollViewports

NormalCancelStaysOpen ==
    /\ InEntry(NormalMode)
    /\ \E k \in {"esc", "ctrl+c"} : ev' = Event(k, "none")
    /\ textInput' = <<>>
    /\ inputState' = NormalMode
    /\ editingTask' = NilTask
    /\ dialogType' = NoDialog
    /\ UNCHANGED <<board, cursorColumn, cursorTask, inputMode, err, lastID,
                   showHelp, disk, running, hist, width>>
    /\ ScrollViewports

\* NormalMode, case "esc", "ctrl+c"
NormalCancel ==
    /\ InEntry(NormalMode)
    /\ \E k \in {"esc", "ctrl+c"} : ev' = Event(k, "none")
    /\ inputMode' = FALSE
    /\ textInput' = <<>>
    /\ inputState' = NormalMode
    /\ editingTask' = NilTask
    /\ dialogType' = NoDialog
    /\ UNCHANGED <<board, cursorColumn, cursorTask, err, lastID, showHelp,
                   disk, running, hist, width>>
    /\ ScrollViewports

\* NormalMode, case "enter"
NormalEnter ==
    /\ InEntry(NormalMode)
    /\ EnterCommit("enter")

QuitsAlways(outcome) == TRUE

\* if err := m.saveBoard(); err != nil { m.err = err; return m, nil }
\* return m, tea.Quit
Quits(outcome) == outcome = "ok"

QuitWithoutSave(k) ==
    /\ running' = FALSE
    /\ ev' = Event(k, "none")
    /\ UNCHANGED <<board, cursorColumn, cursorTask, textInput, inputMode,
                   inputState, err, lastID, showHelp, dialogType, editingTask,
                   disk, hist, width>>
    /\ ScrollViewports

\* The quit code of both switches: save, then tea.Quit unless the save failed.
SaveAndQuit(k) ==
    \E outcome \in env.saves :
      /\ disk' = saveBoard(board, outcome, disk)
      /\ err' = saveErr(outcome, err)
      /\ running' = ~Quits(outcome)
      /\ ev' = Event(k, outcome)
      /\ UNCHANGED <<board, cursorColumn, cursorTask, textInput, inputMode,
                     inputState, lastID, showHelp, dialogType, editingTask, hist, width>>
      /\ ScrollViewports

\* NormalMode, case "q"
NormalQuit ==
    /\ InEntry(NormalMode)
    /\ SaveAndQuit("q")

\* NormalMode, case "?"
NormalHelp ==
    /\ InEntry(NormalMode)
    /\ showHelp' = ~showHelp
    /\ ev' = Event("?", "none")
    /\ UNCHANGED <<board, cursorColumn, cursorTask, textInput, inputMode,
                   inputState, err, lastID, dialogType, editingTask, disk,
                   running, hist, width>>
    /\ ScrollViewports

ForwardQuits(k) ==
    IF k \in QuitKeys
    THEN SaveAndQuit(k)
    ELSE /\ CanType(textInput, k)
         /\ textInput' = TextInputUpdate(textInput, k)
         /\ ev' = Event(k, "none")
         /\ UNCHANGED <<board, cursorColumn, cursorTask, inputMode, inputState,
                        err, lastID, showHelp, dialogType, editingTask, disk,
                        running, hist, width>>
         /\ ScrollViewports

\* The key goes to m.textInput.Update and nothing else changes.
Forward(k) ==
    /\ CanType(textInput, k)
    /\ textInput' = TextInputUpdate(textInput, k)
    /\ ev' = Event(k, "none")
    /\ UNCHANGED <<board, cursorColumn, cursorTask, inputMode, inputState,
                   err, lastID, showHelp, dialogType, editingTask, disk,
                   running, hist, width>>
    /\ ScrollViewports

\* NormalMode, a key with no case: the code after the switch forwards it.
NormalForward ==
    /\ InEntry(NormalMode)
    /\ \E k \in env.typed \ {"i", "esc", "ctrl+c", "enter", "q", "?"} : Forward(k)

InsertEscClears ==
    /\ InEntry(InsertMode)
    /\ inputState' = NormalMode
    /\ textInput' = <<>>
    /\ ev' = Event("esc", "none")
    /\ UNCHANGED <<board, cursorColumn, cursorTask, inputMode, err, lastID,
                   showHelp, dialogType, editingTask, disk, running, hist, width>>
    /\ ScrollViewports

\* InsertMode, case "esc"
InsertEsc ==
    /\ InEntry(InsertMode)
    /\ inputState' = NormalMode
    /\ ev' = Event("esc", "none")
    /\ UNCHANGED <<board, cursorColumn, cursorTask, textInput, inputMode, err,
                   lastID, showHelp, dialogType, editingTask, disk, running, hist, width>>
    /\ ScrollViewports

\* InsertMode, case "enter"
InsertEnter ==
    /\ InEntry(InsertMode)
    /\ EnterCommit("enter")

\* InsertMode, default
InsertForward ==
    /\ InEntry(InsertMode)
    /\ \E k \in env.typed \ {"esc", "enter"} : Forward(k)

\* --------------------------------------------------------------- Browsing
Browsing == running /\ dialogType # DeleteDialog /\ ~inputMode

\* case "ctrl+c", "q"
Quit ==
    /\ Browsing
    /\ \E k \in QuitKeys : SaveAndQuit(k)

\* case "?"
Help ==
    /\ Browsing
    /\ showHelp' = ~showHelp
    /\ ev' = Event("?", "none")
    /\ UNCHANGED <<board, cursorColumn, cursorTask, textInput, inputMode,
                   inputState, err, lastID, dialogType, editingTask, disk,
                   running, hist, width>>
    /\ ScrollViewports

OpenEntryNormal(k, st) ==
    /\ inputMode' = TRUE
    /\ inputState' = NormalMode
    /\ textInput' = <<>>
    /\ ev' = Event(k, "none")
    /\ UNCHANGED <<board, cursorColumn, cursorTask, err, lastID, showHelp,
                   dialogType, editingTask, disk, running, hist, width>>
    /\ ScrollViewports

\* case "a" and case "n": the entry dialog opens in the given state.
OpenEntry(k, st) ==
    /\ inputMode' = TRUE
    /\ inputState' = st
    /\ textInput' = <<>>
    /\ ev' = Event(k, "none")
    /\ UNCHANGED <<board, cursorColumn, cursorTask, err, lastID, showHelp,
                   dialogType, editingTask, disk, running, hist, width>>
    /\ ScrollViewports

\* case "a"
AddKey ==
    /\ Browsing
    /\ OpenEntry("a", InsertMode)

\* case "n"
NewKey ==
    /\ Browsing
    /\ OpenEntry("n", NormalMode)

\* A key whose case changes nothing: the code falls out of the switch.
NoChange(k) ==
    /\ ev' = Event(k, "none")
    /\ UNCHANGED <<board, cursorColumn, cursorTask, textInput, inputMode,
                   inputState, err, lastID, showHelp, dialogType, editingTask,
                   disk, running, hist, width>>
    /\ ScrollViewports

\* case "e"
EditKey ==
    /\ Browsing
    /\ IF Len(board) > 0 /\ Len(TasksOf(board, cursorColumn)) > 0
       THEN /\ dialogType' = EditDialog
            /\ editingTask' = [col |-> cursorColumn, idx |-> cursorTask]
            /\ textInput' = TasksOf(board, cursorColumn)[cursorTask + 1].Title
            /\ inputMode' = TRUE
            /\ inputState' = InsertMode
            /\ ev' = Event("e", "none")
            /\ UNCHANGED <<board, cursorColumn, cursorTask, err, lastID,
                           showHelp, disk, running, hist, width>>
            /\ ScrollViewports
       ELSE NoChange("e")

DeleteKeyAlways ==
    /\ Browsing
    /\ dialogType' = DeleteDialog
    /\ ev' = Event("d", "none")
    /\ UNCHANGED <<board, cursorColumn, cursorTask, textInput, inputMode,
                   inputState, err, lastID, showHelp, editingTask, disk,
                   running, hist, width>>
    /\ ScrollViewports

\* case "d"
DeleteKey ==
    /\ Browsing
    /\ IF Len(board) > 0 /\ Len(TasksOf(board, cursorColumn)) > 0
       THEN /\ dialogType' = DeleteDialog
            /\ ev' = Event("d", "none")
            /\ UNCHANGED <<board, cursorColumn, cursorTask, textInput,
                           inputMode, inputState, err, lastID, showHelp,
                           editingTask, disk, running, hist, width>>
            /\ ScrollViewports
       ELSE NoChange("d")

\* The cursor moves and the viewport of the column it is in now is rendered
\* again; nothing else changes.
MoveCursor(k, c, t) ==
    /\ cursorColumn' = c
    /\ cursorTask' = t
    /\ viewports' = Refresh(UpdateViewports(viewports, k), board, c, t, width, {c})
    /\ ev' = Event(k, "none")
    /\ UNCHANGED <<board, textInput, inputMode, inputState, err, lastID,
                   showHelp, dialogType, editingTask, width, disk, running, hist>>

\* case "up", "k"
Up ==
    /\ Browsing
    /\ \E k \in UpKeys :
         IF Len(TasksOf(board, cursorColumn)) > 0
         THEN MoveCursor(k, cursorColumn, max(0, cursorTask - 1))
         ELSE NoChange(k)

\* case "down", "j"
Down ==
    /\ Browsing
    /\ \E k \in DownKeys :
         IF Len(TasksOf(board, cursorColumn)) > 0
         THEN MoveCursor(k, cursorColumn,
                         min(Len(TasksOf(board, cursorColumn)) - 1, cursorTask + 1))
         ELSE NoChange(k)

\* case "left", "h"
Left ==
    /\ Browsing
    /\ \E k \in LeftKeys :
         IF cursorColumn > 0
         THEN MoveCursor(k, cursorColumn - 1, 0)
         ELSE NoChange(k)

\* case "right", "l"
Right ==
    /\ Browsing
    /\ \E k \in RightKeys :
         IF cursorColumn < Len(board) - 1
         THEN MoveCursor(k, cursorColumn + 1, 0)
         ELSE NoChange(k)

MoveTaskToFront(b, src, i, dst) ==
    LET task == TasksOf(b, src)[i + 1]
        b1 == WithTasks(b, src, RemoveAt(TasksOf(b, src), i))
    IN  WithTasks(b1, dst, <<task>> \o TasksOf(b1, dst))

\* The board after the task at index i of column src is removed from it and
\* appended to column dst.
MoveTask(b, src, i, dst) ==
    LET task == TasksOf(b, src)[i + 1]
        b1 == WithTasks(b, src, RemoveAt(TasksOf(b, src), i))
    IN  WithTasks(b1, dst, Append(TasksOf(b1, dst), task))

\* The body of both move cases, for the destination column dst.
MoveTo(k, dst) ==
    \E outcome \in env.saves :
      /\ board' = MoveTask(board, cursorColumn, cursorTask, dst)
      /\ cursorColumn' = dst
      /\ cursorTask' = Len(TasksOf(board', dst)) - 1
      /\ viewports' = Refresh(UpdateViewports(viewports, k), board', dst,
                              cursorTask', width, {dst, cursorColumn})
      /\ disk' = saveBoard(board', outcome, disk)
      /\ err' = saveErr(outcome, err)
      /\ ev' = Event(k, outcome)
      /\ UNCHANGED <<textInput, inputMode, inputState, lastID, showHelp,
                     dialogType, editingTask, width, running, hist>>

\* case "[", "{"
MoveLeft ==
    /\ Browsing
    /\ \E k \in MoveLeftKeys :
         IF cursorColumn > 0 /\ Len(TasksOf(board, cursorColumn)) > 0
         THEN MoveTo(k, cursorColumn - 1)
         ELSE NoChange(k)

\* case "]", "}"
MoveRight ==
    /\ Browsing
    /\ \E k \in MoveRightKeys :
         IF cursorColumn < Len(board) - 1 /\ Len(TasksOf(board, cursorColumn)) > 0
         THEN MoveTo(k, cursorColumn + 1)
         ELSE NoChange(k)

\* A key with no case in the Browsing switch.
OtherKey ==
    /\ Browsing
    /\ \E k \in BrowsingOtherKeys : NoChange(k)

\* ------------------------------------------------------------ window size
\* case tea.WindowSizeMsg, in any state of the machine: the width is stored
\* and the three viewports are resized and rendered again.
WindowSize ==
    /\ running
    /\ \E w \in Widths, h \in Heights :
         /\ width' = Observed(w, width)
         /\ viewports' = Resized(viewports, board, cursorColumn, cursorTask,
                                 w, h, showHelp)
    /\ ev' = Event("resize", "none")
    /\ UNCHANGED <<board, cursorColumn, cursorTask, textInput, inputMode,
                   inputState, err, lastID, showHelp, dialogType, editingTask,
                   disk, running, hist>>

\* ---------------------------------------------------------- specification
Next ==
    \/ Start
    \/ DeleteConfirm
    \/ DeleteCancel
    \/ DeleteIgnore
    \/ NormalInsert
    \/ NormalCancel
    \/ NormalEnter
    \/ NormalQuit
    \/ NormalHelp
    \/ NormalForward
    \/ InsertEsc
    \/ InsertEnter
    \/ InsertForward
    \/ Quit
    \/ Help
    \/ AddKey
    \/ NewKey
    \/ EditKey
    \/ DeleteKey
    \/ Up
    \/ Down
    \/ Left
    \/ Right
    \/ MoveLeft
    \/ MoveRight
    \/ OtherKey
    \/ WindowSize

Spec == Init /\ [][Next]_vars

SpecIds == InitIds /\ [][Next]_vars

SpecText == InitText /\ [][Next]_vars

SpecIO == InitIO /\ [][Next]_vars

SpecKeys == InitKeys /\ [][Next]_vars

SpecView == InitView /\ [][Next]_vars

\* The board an earlier run left in the snapshot file under SpecScroll: the
\* tasks 1..SnapshotTasks in the first column.
ScrollBoard ==
    WithTasks(EmptyBoard, 0,
              [j \in 1..SnapshotTasks |-> NewTask(j, <<"q">>, CHOOSE t \in Times : TRUE)])

\* Under SpecScroll the display is observed with the viewports' heights and
\* scroll offsets, the terminal reports its size when the program starts,
\* and the user moves no task to another column.  The first state is the
\* end of an earlier run that left ScrollBoard in the snapshot file and quit
\* with 'q'.
InitScroll ==
    /\ board = ScrollBoard
    /\ lastID = SnapshotTasks
    /\ err = NoErr
    /\ cursorColumn = 0
    /\ cursorTask = 0
    /\ textInput = <<>>
    /\ inputMode = FALSE
    /\ inputState = NormalMode
    /\ showHelp = TRUE
    /\ dialogType = NoDialog
    /\ editingTask = NilTask
    /\ width \in Widths
    /\ env = [saves |-> {"ok"}, reads |-> {TRUE}, typed |-> {"up"},
              texts |-> {<<>>, <<"q">>}, cap |-> MaxIDScroll, track |-> FALSE,
              view |-> TRUE, scroll |-> TRUE]
    /\ \E h \in Heights :
         viewports = Resized([c \in 1..3 |-> NoContent], board, 0, 0, width, h, TRUE)
    /\ disk = JsonFile(board)
    /\ running = FALSE
    /\ ev = [key |-> "q", mode |-> "Browsing", sub |-> "-", save |-> "ok"]
    /\ deleted = {}
    /\ deletedEver = {}

\* Update for every message but the keys that move a task.
NextScroll ==
    \/ Start
    \/ DeleteConfirm
    \/ DeleteCancel
    \/ DeleteIgnore
    \/ NormalInsert
    \/ NormalCancel
    \/ NormalEnter
    \/ NormalQuit
    \/ NormalHelp
    \/ NormalForward
    \/ InsertEsc
    \/ InsertEnter
    \/ InsertForward
    \/ Quit
    \/ Help
    \/ AddKey
    \/ NewKey
    \/ EditKey
    \/ DeleteKey
    \/ Up
    \/ Down
    \/ Left
    \/ Right
    \/ OtherKey
    \/ WindowSize

SpecScroll == InitScroll /\ [][NextScroll]_vars

\* ===================================================== the simpler variant
\* src/unnamed/part_000: the same board, cursor, text input and snapshot file
\* with one switch over the key for both Browsing and text entry, no
\* delete or edit dialog, no entry sub-states and no viewports.  Its model
\* struct is the fields board .. showHelp; the variables of the fields it
\* lacks keep their initial values.
absent == <<inputState, dialogType, editingTask, viewports, env, deleted, deletedEver>>

\* Under SpecSimple the user types 'a' into a title, and backspace.
InitSimple ==
    /\ InitModel
    /\ env = [saves |-> {"ok"}, reads |-> {TRUE}, typed |-> {"backspace"},
              texts |-> {<<>>, <<"a">>}, cap |-> MaxIDSimple, track |-> FALSE,
              view |-> FALSE, scroll |-> FALSE]

\* The record of a key event of the variant.
SimpleEvent(k, outcome) ==
    [key |-> k, mode |-> IF inputMode THEN "AddingNew" ELSE "Browsing",
     sub |-> "-", save |-> outcome]

\* main() and initialModel() of the variant.
SimpleStart ==
    /\ ~running
    /\ \E readOK \in env.reads :
         /\ board' = loadBoard(disk, readOK).board
         /\ lastID' = loadBoard(disk, readOK).lastID
         /\ err' = loadBoard(disk, readOK).err
    /\ cursorColumn' = 0
    /\ cursorTask' = 0
    /\ textInput' = <<>>
    /\ inputMode' = FALSE
    /\ showHelp' = TRUE
    /\ width' = 0
    /\ running' = TRUE
    /\ ev' = [key |-> "start", mode |-> "-", sub |-> "-", save |-> "none"]
    /\ UNCHANGED <<disk, absent>>

\* The code after the switch, for a case that changed nothing: the key goes
\* to m.textInput.Update when inputMode is set.
SimpleFallOut(k) ==
    /\ IF inputMode
       THEN CanType(textInput, k) /\ textInput' = TextInputUpdate(textInput, k)
       ELSE textInput' = textInput
    /\ ev' = SimpleEvent(k, "none")
    /\ UNCHANGED <<board, cursorColumn, cursorTask, inputMode, err, lastID,
                   showHelp, width, disk, running, absent>>

\* case "ctrl+c", "q", whether or not inputMode is set
SimpleQuit ==
    /\ running
    /\ \E k \in QuitKeys, outcome \in env.saves :
         /\ disk' = saveBoard(board, outcome, disk)
         /\ err' = saveErr(outcome, err)
         /\ running' = ~Quits(outcome)
         /\ ev' = SimpleEvent(k, outcome)
    /\ UNCHANGED <<board, cursorColumn, cursorTask, textInput, inputMode,
                   lastID, showHelp, width, absent>>

\* case "?", whether or not inputMode is set
SimpleHelp ==
    /\ running
    /\ showHelp' = ~showHelp
    /\ ev' = SimpleEvent("?", "none")
    /\ UNCHANGED <<board, cursorColumn, cursorTask, textInput, inputMode, err,
                   lastID, width, disk, running, absent>>

\* case "enter"
SimpleEnter ==
    /\ running
    /\ IF inputMode /\ HasTitle(textInput)
       THEN \E outcome \in env.saves, t \in Times :
              /\ lastID < env.cap
              /\ lastID' = NextID(lastID)
              /\ board' = AppendTask(board, cursorColumn,
                                     NewTask(lastID', textInput, t))
              /\ textInput' = <<>>
              /\ inputMode' = FALSE
              /\ disk' = saveBoard(board', outcome, disk)
              /\ err' = saveErr(outcome, err)
              /\ ev' = SimpleEvent("enter", outcome)
              /\ UNCHANGED <<cursorColumn, cursorTask, showHelp, width,
                             running, absent>>
       ELSE /\ inputMode' = FALSE
            /\ ev' = SimpleEvent("enter", "none")
            /\ UNCHANGED <<board, cursorColumn, cursorTask, textInput, err,
                           lastID, showHelp, width, disk, running, absent>>

\* case "a"
SimpleAdd ==
    /\ running
    /\ IF ~inputMode
       THEN /\ inputMode' = TRUE
            /\ ev' = SimpleEvent("a", "none")
            /\ UNCHANGED <<board, cursorColumn, cursorTask, textInput, err,
                           lastID, showHelp, width, disk, running, absent>>
       ELSE SimpleFallOut("a")

\* case "d": the task under the cursor is removed at once.
SimpleDelete ==
    /\ running
    /\ IF ~inputMode /\ Len(board) > 0 /\ Len(TasksOf(board, cursorColumn)) > 0
       THEN \E outcome \in env.saves :
              LET nts == RemoveAt(TasksOf(board, cursorColumn), cursorTask)
              IN  /\ board' = WithTasks(board, cursorColumn, nts)
                  /\ cursorTask' = ClampAfterRemove(cursorTask, Len(nts))
                  /\ disk' = saveBoard(board', outcome, disk)
                  /\ err' = saveErr(outcome, err)
                  /\ ev' = SimpleEvent("d", outcome)
                  /\ UNCHANGED <<cursorColumn, textInput, inputMode, lastID,
                                 showHelp, width, running, absent>>
       ELSE SimpleFallOut("d")

\* case "esc"
SimpleEsc ==
    /\ running
    /\ IF inputMode
       THEN /\ inputMode' = FALSE
            /\ textInput' = <<>>
            /\ ev' = SimpleEvent("esc", "none")
            /\ UNCHANGED <<board, cursorColumn, cursorTask, err, lastID,
                           showHelp, width, disk, running, absent>>
       ELSE SimpleFallOut("esc")

\* The cursor of the variant moves; nothing else changes.
SimpleMoveCursor(k, c, t) ==
    /\ cursorColumn' = c
    /\ cursorTask' = t
    /\ ev' = SimpleEvent(k, "none")
    /\ UNCHANGED <<board, textInput, inputMode, err, lastID, showHelp, width,
                   disk, running, absent>>

\* case "up", "k"
SimpleUp ==
    /\ running
    /\ \E k \in UpKeys :
         IF ~inputMode /\ Len(TasksOf(board, cursorColumn)) > 0
         THEN SimpleMoveCursor(k, cursorColumn, max(0, cursorTask - 1))
         ELSE SimpleFallOut(k)

\* case "down", "j"
SimpleDown ==
    /\ running
    /\ \E k \in DownKeys :
         IF ~inputMode /\ Len(TasksOf(board, cursorColumn)) > 0
         THEN SimpleMoveCursor(k, cursorColumn,
                               min(Len(TasksOf(board, cursorColumn)) - 1, cursorTask + 1))
         ELSE SimpleFallOut(k)

\* case "left", "h"
SimpleLeft ==
    /\ running
    /\ \E k \in LeftKeys :
         IF ~inputMode /\ cursorColumn > 0
         THEN SimpleMoveCursor(k, cursorColumn - 1, 0)
         ELSE SimpleFallOut(k)

\* case "right", "l"
SimpleRight ==
    /\ running
    /\ \E k \in RightKeys :
         IF ~inputMode /\ cursorColumn < Len(board) - 1
         THEN SimpleMoveCursor(k, cursorColumn + 1, 0)
         ELSE SimpleFallOut(k)

\* The body of both move cases of the variant.
SimpleMoveTo(k, dst) ==
    \E outcome \in env.saves :
      /\ board' = MoveTask(board, cursorColumn, cursorTask, dst)
      /\ cursorColumn' = dst
      /\ cursorTask' = Len(TasksOf(board', dst)) - 1
      /\ disk' = saveBoard(board', outcome, disk)
      /\ err' = saveErr(outcome, err)
      /\ ev' = SimpleEvent(k, outcome)
      /\ UNCHANGED <<textInput, inputMode, lastID, showHelp, width, running,
                     absent>>

\* case "[", "{"
SimpleMoveLeft ==
    /\ running
    /\ \E k \in MoveLeftKeys :
         IF ~inputMode /\ cursorColumn > 0 /\ Len(TasksOf(board, cursorColumn)) > 0
         THEN SimpleMoveTo(k, cursorColumn - 1)
         ELSE SimpleFallOut(k)

\* case "]", "}"
SimpleMoveRight ==
    /\ running
    /\ \E k \in MoveRightKeys :
         IF /\ ~inputMode
            /\ cursorColumn < Len(board) - 1
            /\ Len(TasksOf(board, cursorColumn)) > 0
         THEN SimpleMoveTo(k, cursorColumn + 1)
         ELSE SimpleFallOut(k)

\* A key with no case in the variant's switch.
SimpleOther ==
    /\ running
    /\ \E k \in env.typed : SimpleFallOut(k)

\* case tea.WindowSizeMsg of the variant; the message then goes to the text
\* input when inputMode is set, which ignores it.
SimpleWindowSize ==
    /\ running
    /\ \E w \in Widths : width' = Observed(w, width)
    /\ ev' = SimpleEvent("resize", "none")
    /\ UNCHANGED <<board, cursorColumn, cursorTask, textInput, inputMode, err,
                   lastID, showHelp, disk, running, absent>>

NextSimple ==
    \/ SimpleStart
    \/ SimpleQuit
    \/ SimpleHelp
    \/ SimpleEnter
    \/ SimpleAdd
    \/ SimpleDelete
    \/ SimpleEsc
    \/ SimpleUp
    \/ SimpleDown
    \/ SimpleLeft
    \/ SimpleRight
    \/ SimpleMoveLeft
    \/ SimpleMoveRight
    \/ SimpleOther
    \/ SimpleWindowSize

SpecSimple == InitSimple /\ [][NextSimple]_vars

\* ============================================================ properties
\* The tasks of the column the cursor is in.
CursorTasks == TasksOf(board, cursorColumn)

\* The largest element of a finite set of numbers, 0 for the empty set.
SetMax(S) == IF S = {} THEN 0 ELSE CHOOSE x \in S : \A y \in S : y <= x

\* The step is an add commit: enter pressed in AddingNew and a task created.
AddCommitStep ==
    /\ ev'.key = "enter"
    /\ ev'.mode = "AddingNew"
    /\ TaskCount(board') = TaskCount(board) + 1

\* The task an add commit has just created: the last of the cursor column.
CreatedTask == TasksOf(board', cursorColumn')[Len(TasksOf(board', cursorColumn'))]

\* C1: in every reachable state the board has three columns, the cursor
\* column is one of them and the cursor task is an index of a task of that
\* column, or 0 when the column is empty.
C1_CursorInvariant ==
    /\ Len(board) = 3
    /\ cursorColumn \in 0..2
    /\ cursorTask >= 0
    /\ cursorTask < max(1, Len(CursorTasks))

\* A confirmed delete has just removed a task and the cursor stands on the
\* last of the tasks that remain, at an index above 0.
C1_Witness ==
    /\ ev.key \in YesKeys
    /\ ev.mode = "ConfirmingDelete"
    /\ ev.save = "ok"
    /\ cursorTask >= 1
    /\ cursorTask = Len(CursorTasks) - 1

\* C2: the ids on the board are pairwise distinct over the three columns and
\* none exceeds lastID; within a run lastID never decreases, and an add commit
\* gives the new task the id lastID + 1, above lastID and above every id on
\* the board, and makes it the new lastID.
C2_IdsDistinct ==
    /\ Cardinality(AllIds(board)) = TaskCount(board)
    /\ \A id \in AllIds(board) : id <= lastID

C2_AddStep ==
    /\ (ev'.key # "start" => lastID' >= lastID)
    /\ (AddCommitStep =>
          /\ CreatedTask.ID > lastID
          /\ \A id \in AllIds(board) : CreatedTask.ID > id
          /\ lastID' = CreatedTask.ID)

C2_IdsIncreasing == []C2_IdsDistinct /\ [][C2_AddStep]_vars

\* An add commit has just created the task with the highest id next to an
\* older task.
C2_Witness ==
    /\ ev.key = "enter"
    /\ ev.mode = "AddingNew"
    /\ ev.save = "ok"
    /\ TaskCount(board) >= 2
    /\ CursorTasks # <<>>
    /\ CursorTasks[Len(CursorTasks)].ID = lastID

\* C3 as claimed: no id of a task deleted in this or an earlier run of the
\* program is the id of a task on the board.
C3_NeverReusedAcrossRuns == deletedEver \cap AllIds(board) = {}

\* C3 as amended: no id of a task deleted in this run is the id of a task on
\* the board.
C3_NeverReusedInRun == deleted \cap AllIds(board) = {}

\* An add commit has just created a task after a task was deleted in this run.
C3_Witness ==
    /\ ev.key = "enter"
    /\ ev.mode = "AddingNew"
    /\ ev.save = "ok"
    /\ deleted # {}
    /\ lastID \in AllIds(board)
    /\ \A id \in deleted : id < lastID

\* The ids in a snapshot file.
DiskIds == IF disk.kind = "json" THEN AllIds(Unmarshal(disk.data)) ELSE {}

\* C4: right after startup with the snapshot loaded, lastID is the maximum of
\* the ids in the snapshot file (0 without tasks or without a file); lastID
\* changes afterwards only by an add commit, whose task gets lastID + 1.
C4_AfterLoad ==
    (ev.key = "start" /\ err = NoErr) =>
        /\ lastID = SetMax(DiskIds)
        /\ disk.kind = "json" => board = Unmarshal(disk.data)

C4_NextId ==
    (ev'.key # "start" /\ lastID' # lastID) =>
        /\ AddCommitStep
        /\ CreatedTask.ID = lastID + 1
        /\ lastID' = lastID + 1

C4_LastIDFromSnapshot == []C4_AfterLoad /\ [][C4_NextId]_vars

\* A snapshot has just been loaded in which the task visited last by the
\* loop does not carry the highest id.
C4_Witness ==
    /\ ev.key = "start"
    /\ err = NoErr
    /\ disk.kind = "json"
    /\ Len(Flatten(board)) >= 2
    /\ Flatten(board)[Len(Flatten(board))].ID < lastID
    /\ lastID = SetMax(DiskIds)

\* The tasks of s other than the one with the given id, in their order.
Without(s, id) == SelectSeq(s, LAMBDA t : t.ID # id)

\* The step is a move key pressed in Browsing on a non-empty column with a
\* column on the side the key moves to.
MoveStep(keys, side) ==
    /\ ev'.key \in keys
    /\ ev'.mode = "Browsing"
    /\ CursorTasks # <<>>
    /\ cursorColumn + side \in Cols

\* What C5 says of a move from the cursor column to the column on one side.
MoveEffect(side) ==
    LET src == cursorColumn
        dst == cursorColumn + side
        moved == CursorTasks[cursorTask + 1]
        after == TasksOf(board', dst)
    IN  /\ TaskCount(board') = TaskCount(board)
        /\ Len(after) = Len(TasksOf(board, dst)) + 1
        /\ after[Len(after)].ID = moved.ID
        /\ after[Len(after)].Title = moved.Title
        /\ after[Len(after)].CreatedAt = moved.CreatedAt
        /\ SubSeq(after, 1, Len(after) - 1) = TasksOf(board, dst)
        /\ TasksOf(board', src) = Without(CursorTasks, moved.ID)
        /\ \A c \in Cols \ {src, dst} : TasksOf(board', c) = TasksOf(board, c)
        /\ cursorColumn' = dst
        /\ cursorTask' = Len(after) - 1

\* C5: a move key pressed in Browsing on a non-empty column with a column on
\* that side takes the task under the cursor out of its column and makes it
\* the last task of the adjacent column: the number of tasks is unchanged, the
\* task keeps id, title and createdAt, all other tasks keep their order, and
\* the cursor ends on the moved task.
C5_MoveStep ==
    /\ MoveStep(MoveLeftKeys, -1) => MoveEffect(-1)
    /\ MoveStep(MoveRightKeys, 1) => MoveEffect(1)

C5_MovePreserves == [][C5_MoveStep]_vars

\* A move has just put a task behind another one in its new column while
\* a task stayed behind in another column.
C5_Witness ==
    /\ ev.key \in MoveLeftKeys \cup MoveRightKeys
    /\ ev.mode = "Browsing"
    /\ ev.save = "ok"
    /\ Len(CursorTasks) >= 2
    /\ cursorTask = Len(CursorTasks) - 1
    /\ \E c \in Cols : c # cursorColumn /\ Len(TasksOf(board, c)) >= 1
    /\ TaskCount(board) = 3

\* A text with a character that is not a space.
NonBlank(v) == \E i \in 1..Len(v) : v[i] # " "

\* C6: enter in AddingNew with a non-blank buffer appends to the cursor
\* column exactly one task, titled with the buffer and with id lastID + 1;
\* the tasks there before and the other columns are unchanged, lastID grows
\* by one and the cursor stays where it is.
C6_AddStep ==
    (ev'.key = "enter" /\ ev'.mode = "AddingNew" /\ NonBlank(textInput)) =>
        LET after == TasksOf(board', cursorColumn)
        IN  /\ Len(after) = Len(CursorTasks) + 1
            /\ SubSeq(after, 1, Len(after) - 1) = CursorTasks
            /\ after[Len(after)].ID = lastID + 1
            /\ after[Len(after)].Title = textInput
            /\ \A c \in Cols \ {cursorColumn} : TasksOf(board', c) = TasksOf(board, c)
            /\ lastID' = lastID + 1
            /\ cursorColumn' = cursorColumn
            /\ cursorTask' = cursorTask

C6_AddAppends == [][C6_AddStep]_vars

\* An add commit has just appended a titled task behind another task.
C6_Witness ==
    /\ ev.key = "enter"
    /\ ev.mode = "AddingNew"
    /\ ev.save = "ok"
    /\ Len(CursorTasks) >= 2
    /\ CursorTasks[Len(CursorTasks)].ID = lastID
    /\ CursorTasks[Len(CursorTasks)].Title = <<"q">>
    /\ cursorTask < Len(CursorTasks) - 1

\* Enter in AddingNew leaves the board, lastID and the file alone and returns
\* to Browsing.
NothingAdded ==
    /\ board' = board
    /\ lastID' = lastID
    /\ disk' = disk
    /\ ~inputMode'
    /\ dialogType' = NoDialog

\* C7 as claimed: enter in AddingNew with an empty or all-whitespace buffer
\* creates no task, leaves lastID, the board and the file unchanged and
\* returns to Browsing.
C7_BlankStep ==
    (ev'.key = "enter" /\ ev'.mode = "AddingNew" /\ ~NonBlank(textInput)) =>
        NothingAdded

C7_BlankCancels == [][C7_BlankStep]_vars

\* C7 as amended: enter in AddingNew with an empty buffer creates no task,
\* leaves lastID, the board and the file unchanged and returns to Browsing;
\* with a buffer of spaces it creates a task titled with the spaces.
C7_EmptyStep ==
    (ev'.key = "enter" /\ ev'.mode = "AddingNew") =>
        /\ textInput = <<>> => NothingAdded
        /\ textInput # <<>> =>
              /\ TaskCount(board') = TaskCount(board) + 1
              /\ CreatedTask.Title = textInput
              /\ lastID' = lastID + 1

C7_EmptyCancels == [][C7_EmptyStep]_vars

\* Enter has just closed an add dialog whose buffer was empty: nothing was
\* saved and the machine is in Browsing.
C7_Witness ==
    /\ ev.key = "enter"
    /\ ev.mode = "AddingNew"
    /\ ev.save = "none"
    /\ textInput = <<>>
    /\ ~inputMode
    /\ dialogType = NoDialog

\* C8: enter in Editing with an empty buffer leaves the board and the file
\* unchanged, and no task on the board ever has an empty title.
C8_NoEmptyTitle == \A t \in AllTasks(board) : t.Title # <<>>

C8_EmptyEditStep ==
    (ev'.key = "enter" /\ ev'.mode = "Editing" /\ textInput = <<>>) =>
        /\ board' = board
        /\ disk' = disk

C8_EmptyEditCancels == []C8_NoEmptyTitle /\ [][C8_EmptyEditStep]_vars

\* C9: a key event that changes the board calls saveBoard, and when a
\* saveBoard call of a key event succeeds the file holds the encoding of the
\* board as it is at the end of that event.
C9_SavedStep ==
    /\ (ev'.key # "start" /\ board' # board) => ev'.save # "none"
    /\ ev'.save = "ok" => disk' = JsonFile(board')

C9_SavedAtOnce == [][C9_SavedStep]_vars

\* A move has just been saved after an earlier save had failed: the file
\* holds the board as moved.
C9_Witness ==
    /\ ev.key \in MoveLeftKeys \cup MoveRightKeys
    /\ ev.save = "ok"
    /\ err = "write"
    /\ TaskCount(board) >= 1
    /\ disk = JsonFile(board)

\* C10 as claimed: after a quit key pressed in Browsing the program has
\* terminated.
C10_QuitAlwaysExits ==
    (ev.key \in QuitKeys /\ ev.mode = "Browsing") => ~running

\* C10 as amended: after a quit key pressed in Browsing the program has
\* terminated exactly when the save succeeded; when it failed the error is
\* recorded and the program keeps running in Browsing.
C10_QuitExitsWhenSaved ==
    (ev.key \in QuitKeys /\ ev.mode = "Browsing") =>
        /\ running <=> ev.save # "ok"
        /\ ev.save # "ok" => err = "write" /\ Mode = "Browsing"

\* A quit key has just been pressed in Browsing, the save failed and the
\* program is still running.
C10_Witness ==
    /\ ev.key \in QuitKeys
    /\ ev.mode = "Browsing"
    /\ ev.save = "denied"
    /\ running
    /\ err = "write"

\* C11: in ConfirmingDelete a cancel key ('n', 'N', esc, 'q', ctrl+c) returns
\* to Browsing with the board, lastID, the cursor and the file unchanged, and
\* a key that is neither a confirm nor a cancel key leaves the mode, the
\* board, the cursor and the text buffer unchanged.
C11_DialogStep ==
    /\ (Mode = "ConfirmingDelete" /\ ev'.key \in NoKeys) =>
          /\ Mode' = "Browsing"
          /\ board' = board
          /\ lastID' = lastID
          /\ cursorColumn' = cursorColumn
          /\ cursorTask' = cursorTask
          /\ disk' = disk
    /\ (Mode = "ConfirmingDelete" /\ ev'.key \notin YesKeys \cup NoKeys) =>
          /\ Mode' = "ConfirmingDelete"
          /\ board' = board
          /\ cursorColumn' = cursorColumn
          /\ cursorTask' = cursorTask
          /\ textInput' = textInput

C11_DialogIsModal == [][C11_DialogStep]_vars

\* The navigation key 'j' has just been pressed in the delete dialog over the
\* first of several tasks: the dialog is still open and the cursor is where
\* it was.
C11_Witness ==
    /\ ev.key = "j"
    /\ ev.mode = "ConfirmingDelete"
    /\ Mode = "ConfirmingDelete"
    /\ cursorTask = 0
    /\ Len(CursorTasks) >= 2
    /\ textInput = <<>>

\* C12: 'y' or 'Y' in ConfirmingDelete removes the task under the cursor
\* from the cursor's column; the tasks before it keep their places, the tasks
\* behind it move up by one, the other columns are unchanged, the board is
\* saved and the machine is in Browsing; the cursor's task index stays unless
\* it was the last of the column, and then it is the new last index, 0 when
\* the column is empty.
C12_DeleteStep ==
    (Mode = "ConfirmingDelete" /\ ev'.key \in YesKeys) =>
        LET before == CursorTasks
            after == TasksOf(board', cursorColumn)
        IN  /\ Len(after) = Len(before) - 1
            /\ \A j \in 1..Len(after) :
                  after[j] = IF j <= cursorTask THEN before[j] ELSE before[j + 1]
            /\ \A c \in Cols \ {cursorColumn} : TasksOf(board', c) = TasksOf(board, c)
            /\ ev'.save # "none"
            /\ ev'.save = "ok" => disk' = JsonFile(board')
            /\ Mode' = "Browsing"
            /\ cursorColumn' = cursorColumn
            /\ cursorTask' >= 0
            /\ cursorTask' = IF cursorTask < Len(after) THEN cursorTask
                              ELSE IF Len(after) = 0 THEN 0 ELSE Len(after) - 1

C12_DeleteRemovesOne == [][C12_DeleteStep]_vars

\* A confirmed delete has just removed the middle one of three tasks: the
\* first and the third remain, and the cursor stands on the third.
C12_Witness ==
    /\ ev.key \in YesKeys
    /\ ev.mode = "ConfirmingDelete"
    /\ Len(CursorTasks) = 2
    /\ CursorTasks[1].ID = 1
    /\ CursorTasks[2].ID = 3
    /\ cursorTask = 1
    /\ disk = JsonFile(board)

\* C13: in the InsertEntry sub-state of AddingNew or Editing a key other than
\* escape and enter goes to the text buffer and does nothing else: the mode,
\* the sub-state, the board, the cursor and the help flag are unchanged and
\* the program keeps running, also for 'q', '?' and ctrl+c.
C13_InsertStep ==
    (/\ running
     /\ Mode \in {"AddingNew", "Editing"}
     /\ Sub = InsertMode
     /\ ev'.key \notin {"esc", "enter"}) =>
        /\ textInput' = TextInputUpdate(textInput, ev'.key)
        /\ Mode' = Mode
        /\ Sub' = InsertMode
        /\ board' = board
        /\ cursorColumn' = cursorColumn
        /\ cursorTask' = cursorTask
        /\ showHelp' = showHelp
        /\ running'

C13_InsertForwards == [][C13_InsertStep]_vars

\* 'q' has just been typed in InsertEntry: it is the last character of the
\* buffer, the dialog is open in InsertEntry and the program is running.
C13_Witness ==
    /\ ev.key = "q"
    /\ ev.sub = InsertMode
    /\ Mode = ev.mode
    /\ Sub = InsertMode
    /\ running
    /\ textInput # <<>>
    /\ textInput[Len(textInput)] = "q"

\* The text-entry dialogs.
EntryModes == {"AddingNew", "Editing"}

\* C14 as claimed: the NormalEntry sub-state is entered only by escape
\* pressed in the InsertEntry sub-state of the same dialog.
C14_EscStep ==
    (Sub' = NormalMode /\ Sub # NormalMode) =>
        /\ ev'.key = "esc"
        /\ Sub = InsertMode
        /\ Mode' = Mode

C14_NormalOnlyByEsc == [][C14_EscStep]_vars

\* C14 as amended: the NormalEntry sub-state is entered by escape pressed in
\* the InsertEntry sub-state of the same dialog, or by 'n' pressed in
\* Browsing, which opens AddingNew in NormalEntry with an empty buffer;
\* Editing is in NormalEntry only after escape.
C14_EscOrNewStep ==
    (Sub' = NormalMode /\ Sub # NormalMode) =>
        \/ /\ ev'.key = "esc"
           /\ Sub = InsertMode
           /\ Mode' = Mode
        \/ /\ ev'.key = "n"
           /\ Mode = "Browsing"
           /\ Mode' = "AddingNew"
           /\ textInput' = <<>>

C14_NormalByEscOrNew == [][C14_EscOrNewStep]_vars

\* 'n' has just been pressed in Browsing: the add dialog is open in
\* NormalEntry.
C14_Witness ==
    /\ ev.key = "n"
    /\ ev.mode = "Browsing"
    /\ Mode = "AddingNew"
    /\ Sub = NormalMode
    /\ textInput = <<>>

\* C15: in the NormalEntry sub-state a key other than 'i', escape, ctrl+c
\* and enter leaves the text buffer unchanged.
C15_NormalStep ==
    (/\ running
     /\ Mode \in EntryModes
     /\ Sub = NormalMode
     /\ ev'.key \notin {"i", "esc", "ctrl+c", "enter"}) =>
        textInput' = textInput

C15_NormalKeepsBuffer == [][C15_NormalStep]_vars

\* C16 as claimed: a step that leaves a dialog state ends in Browsing, and
\* the program terminates only from Browsing.
C16_BrowsingStep ==
    /\ (running /\ Mode # "Browsing" /\ Mode' # Mode) => Mode' = "Browsing"
    /\ (running /\ ~running') => Mode = "Browsing"

C16_QuitOnlyFromBrowsing == [][C16_BrowsingStep]_vars

\* C16 as amended: a step that leaves a dialog state ends in Browsing; the
\* program terminates from Browsing by a quit key and from the NormalEntry
\* sub-state of AddingNew or Editing by 'q', and from no other state.
C16_NormalQuitStep ==
    /\ (running /\ Mode # "Browsing" /\ Mode' # Mode) => Mode' = "Browsing"
    /\ (running /\ ~running') =>
          \/ Mode = "Browsing" /\ ev'.key \in QuitKeys
          \/ Mode \in EntryModes /\ Sub = NormalMode /\ ev'.key = "q"

C16_QuitFromBrowsingOrNormal == [][C16_NormalQuitStep]_vars

\* 'q' has just been pressed in the NormalEntry sub-state of Editing: the
\* program has terminated with the dialog open.
C16_Witness ==
    /\ ev.key = "q"
    /\ ev.mode = "Editing"
    /\ ev.sub = NormalMode
    /\ ~running
    /\ Mode = "Editing"

\* C17: a navigation key pressed in Browsing keeps the cursor on the board
\* and never wraps: up at index 0 and down at the last task (or on an empty
\* column) leave the task index unchanged, left at column 0 and right at
\* column 2 leave the cursor unchanged; otherwise up and down change the task
\* index by one within the column, and left and right change the column by
\* one and set the task index to 0.
C17_NavStep ==
    (running /\ Mode = "Browsing") =>
        /\ ev'.key \in UpKeys =>
              /\ cursorColumn' = cursorColumn
              /\ cursorTask' = IF cursorTask = 0 THEN 0 ELSE cursorTask - 1
        /\ ev'.key \in DownKeys =>
              /\ cursorColumn' = cursorColumn
              /\ cursorTask' = IF cursorTask >= Len(CursorTasks) - 1
                                THEN cursorTask ELSE cursorTask + 1
        /\ ev'.key \in LeftKeys =>
              IF cursorColumn = 0
              THEN cursorColumn' = 0 /\ cursorTask' = cursorTask
              ELSE cursorColumn' = cursorColumn - 1 /\ cursorTask' = 0
        /\ ev'.key \in RightKeys =>
              IF cursorColumn = 2
              THEN cursorColumn' = 2 /\ cursorTask' = cursorTask
              ELSE cursorColumn' = cursorColumn + 1 /\ cursorTask' = 0
        /\ ev'.key \in UpKeys \cup DownKeys \cup LeftKeys \cup RightKeys =>
              /\ board' = board
              /\ cursorColumn' \in Cols
              /\ cursorTask' >= 0
              /\ TasksOf(board, cursorColumn') # <<>> =>
                    cursorTask' < Len(TasksOf(board, cursorColumn'))

C17_NavigationBounded == [][C17_NavStep]_vars

\* A down key has just been pressed in Browsing and the cursor stands on the
\* last of three tasks.
C17_Witness ==
    /\ ev.key \in DownKeys
    /\ ev.mode = "Browsing"
    /\ Mode = "Browsing"
    /\ Len(CursorTasks) = 3
    /\ cursorTask = 2

\* C18: when the program has terminated by a quit key, the snapshot file
\* holds the encoding of the board in memory; the save that wrote it is part
\* of the step that terminated the program.
C18_SavedOnExit == ~running => disk = JsonFile(board)

C18_QuitStep ==
    (running /\ ~running') =>
        /\ ev'.save = "ok"
        /\ board' = board
        /\ disk' = JsonFile(board)

C18_QuitSaves == []C18_SavedOnExit /\ [][C18_QuitStep]_vars

\* The program has terminated by a quit key after an earlier save had
\* failed: the file holds the board, a task included.
C18_Witness ==
    /\ ~running
    /\ ev.key \in QuitKeys
    /\ ev.save = "ok"
    /\ err = "write"
    /\ TaskCount(board) >= 1
    /\ disk = JsonFile(board)

\* C19: 'e' binds the task under the cursor and loads its title into the
\* buffer; while Editing lasts the board and the cursor do not change; enter
\* with a non-empty buffer gives that task the buffer as its title and
\* leaves its id, createdAt, column and position, every other task and
\* lastID unchanged.
C19_EditStep ==
    /\ (running /\ Mode = "Browsing" /\ Mode' = "Editing") =>
          /\ ev'.key = "e"
          /\ board' = board
          /\ cursorColumn' = cursorColumn
          /\ cursorTask' = cursorTask
          /\ textInput' = CursorTasks[cursorTask + 1].Title
    /\ (running /\ Mode = "Editing" /\ Mode' = "Editing") =>
          /\ board' = board
          /\ cursorColumn' = cursorColumn
          /\ cursorTask' = cursorTask
    /\ (running /\ Mode = "Editing" /\ ev'.key = "enter" /\ textInput # <<>>) =>
          /\ lastID' = lastID
          /\ \A c \in Cols :
                /\ Len(TasksOf(board', c)) = Len(TasksOf(board, c))
                /\ \A j \in 1..Len(TasksOf(board, c)) :
                      TasksOf(board', c)[j] =
                          IF c = cursorColumn /\ j = cursorTask + 1
                          THEN [TasksOf(board, c)[j] EXCEPT !.Title = textInput]
                          ELSE TasksOf(board, c)[j]

C19_EditInPlace == [][C19_EditStep]_vars

\* An edit commit has just retitled the second of two tasks of a column:
\* it is titled "q?" and the first is still titled "q".
C19_Witness ==
    /\ ev.key = "enter"
    /\ ev.mode = "Editing"
    /\ ev.save = "ok"
    /\ Len(CursorTasks) = 2
    /\ cursorTask = 1
    /\ CursorTasks[1].ID = 2
    /\ CursorTasks[1].Title = <<"q">>
    /\ CursorTasks[2].ID = 1
    /\ CursorTasks[2].Title = <<"q", "?">>

\* What a viewport shows of the tasks: the placeholder, the titles in order
\* and the selection marker.
Shown(content) == [placeholder |-> content.placeholder, lines |-> content.lines]

\* C20: after every key event, once the terminal's size is known, each of
\* the three viewports shows what rendering the current board and cursor
\* produces for its column.
C20_DisplayCurrent ==
    (running /\ width # 0 /\ ev.key \notin {"start", "resize"}) =>
        \A c \in Cols :
            Shown(viewports[c + 1]) =
                Shown(Render(board, cursorColumn, cursorTask, width, c))

\* C22: enter in AddingNew or Editing, in either sub-state, ends in Browsing
\* with an empty text buffer.
C22_CommitStep ==
    (running /\ Mode \in EntryModes /\ ev'.key = "enter") =>
        /\ Mode' = "Browsing"
        /\ textInput' = <<>>

C22_CommitClearsBuffer == [][C22_CommitStep]_vars

\* The key k, pressed in the current state, is one of the transitions C23
\* lists as not a mutation.
NotMutation(k) ==
    /\ running
    /\ \/ /\ Mode = "Browsing"
          /\ \/ k \in UpKeys \cup DownKeys \cup LeftKeys \cup RightKeys
             \/ k \in {"?", "a", "n", "e", "d"}
             \/ k \in MoveLeftKeys /\ (cursorColumn = 0 \/ CursorTasks = <<>>)
             \/ k \in MoveRightKeys /\ (cursorColumn = 2 \/ CursorTasks = <<>>)
       \/ Mode \in EntryModes /\ Sub = InsertMode /\ k = "esc"
       \/ Mode \in EntryModes /\ Sub = NormalMode /\ k \in {"esc", "ctrl+c"}
       \/ Mode = "ConfirmingDelete" /\ k \in NoKeys

\* C23: navigation, the help toggle, opening a dialog, escape from
\* InsertEntry, cancelling a dialog and a move, delete or edit key pressed
\* where it does not apply leave the board, lastID and the file unchanged;
\* escape from InsertEntry to NormalEntry keeps the buffer, cancelling a
\* text-entry dialog empties it, and 'e' or 'd' on an empty column opens
\* nothing.
C23_FrameStep ==
    NotMutation(ev'.key) =>
        /\ board' = board
        /\ lastID' = lastID
        /\ disk' = disk
        /\ (Mode \in EntryModes /\ Sub = InsertMode) =>
              textInput' = textInput /\ Mode' = Mode /\ Sub' = NormalMode
        /\ (Mode \in EntryModes /\ Sub = NormalMode) =>
              textInput' = <<>> /\ Mode' = "Browsing"
        /\ (Mode = "Browsing" /\ ev'.key \in {"e", "d"} /\ CursorTasks = <<>>) =>
              Mode' = "Browsing"

C23_NonMutationsKeepBoard == [][C23_FrameStep]_vars

\* Escape has just been pressed in InsertEntry with "q" typed, while the
\* file is behind the board because a save had failed: the buffer still
\* holds "q" and the file is still behind.
C23_Witness ==
    /\ ev.key = "esc"
    /\ ev.sub = InsertMode
    /\ Sub = NormalMode
    /\ textInput = <<"q">>
    /\ TaskCount(board) >= 1
    /\ err = "write"
    /\ disk # JsonFile(board)

\* C25: in ConfirmingDelete and in Editing the cursor's column is not empty
\* and the cursor is the index of one of its tasks; in Editing the bound
\* task is the task under the cursor; the delete dialog and a text-entry
\* dialog are never open together.
C25_DialogTargetExists ==
    /\ Mode \in {"ConfirmingDelete", "Editing"} =>
          /\ CursorTasks # <<>>
          /\ cursorTask \in 0..(Len(CursorTasks) - 1)
    /\ Mode = "Editing" =>
          editingTask = [col |-> cursorColumn, idx |-> cursorTask]
    /\ ~(dialogType = DeleteDialog /\ inputMode)
    /\ dialogType = EditDialog => inputMode

\* The delete dialog is open over the last of three tasks of the middle
\* column.
C25_Witness ==
    /\ Mode = "ConfirmingDelete"
    /\ ev.key = "d"
    /\ cursorColumn = 1
    /\ Len(CursorTasks) = 3
    /\ cursorTask = 2

\* C26: within a run an error once recorded stays recorded, also through a
\* key event whose save succeeds; a key event whose save fails records the
\* error, and when it is a commit, a confirmed delete or a move its change
\* of the board is applied and the machine is in Browsing.
C26_ErrorStep ==
    /\ (ev'.key # "start" /\ err # NoErr) => err' # NoErr
    /\ ev'.save = "denied" => err' = "write"
    /\ (ev'.save = "denied" /\ ev'.key \notin QuitKeys) =>
          /\ Mode' = "Browsing"
          /\ Mode = "ConfirmingDelete" => TaskCount(board') = TaskCount(board) - 1
          /\ Mode = "AddingNew" =>
                /\ TaskCount(board') = TaskCount(board) + 1
                /\ CreatedTask.Title = textInput
          /\ Mode = "Editing" =>
                TasksOf(board', cursorColumn)[cursorTask + 1].Title = textInput
          /\ Mode = "Browsing" =>
                /\ cursorColumn' # cursorColumn
                /\ Len(TasksOf(board', cursorColumn)) = Len(CursorTasks) - 1
                /\ Len(TasksOf(board', cursorColumn')) =
                       Len(TasksOf(board, cursorColumn')) + 1

C26_ErrorSticks == [][C26_ErrorStep]_vars

\* An add commit has just been saved after the load at startup had failed:
\* the read error is still recorded.
C26_Witness ==
    /\ ev.key = "enter"
    /\ ev.mode = "AddingNew"
    /\ ev.save = "ok"
    /\ err = "read"
    /\ disk = JsonFile(board)
    /\ TaskCount(board) = 1

\* C24: in the variant, while inputMode is set, a key other than escape and
\* enter goes to the text buffer and does nothing else: text entry stays
\* active, the board, the cursor and the help flag are unchanged and the
\* program keeps running, also for 'q' and '?'.
C24_SimpleStep ==
    (running /\ inputMode /\ ev'.key \notin {"esc", "enter"}) =>
        /\ textInput' = TextInputUpdate(textInput, ev'.key)
        /\ inputMode'
        /\ board' = board
        /\ cursorColumn' = cursorColumn
        /\ cursorTask' = cursorTask
        /\ showHelp' = showHelp
        /\ running'

C24_SimpleForwards == [][C24_SimpleStep]_vars

\* C21: after every key event, once the terminal's size is known, the
\* viewport of the cursor's column is scrolled so that the box of the task
\* under the cursor has a row inside the visible window, in every state of
\* the machine.
C21_CursorVisible ==
    (running /\ width # 0 /\ ev.key \notin {"start", "resize"}
             /\ CursorTasks # <<>>) =>
        LET vp == viewports[cursorColumn + 1]
        IN  /\ vp.yOffset < (cursorTask + 1) * taskHeight
            /\ cursorTask * taskHeight < vp.yOffset + vp.height

====
